---- MODULE Spec2Model ----
(***************************************************************************)
(* Model of app.py: the Flask backend of the bus demo.                     *)
(*                                                                         *)
(* State: the module-level globals set while app.py is imported (model,    *)
(* the three TWILIO_* settings, twilio_client, SMS_TRANSLATIONS) and the   *)
(* request that is being answered (its body, the response produced for it  *)
(* and the collaborator calls made on its behalf).                         *)
(*                                                                         *)
(* Texts are sequences of tokens (a token is a string the model never      *)
(* looks inside); the weather text is held one character per token,        *)
(* because the regular expression of send_sms works on characters.         *)
(***************************************************************************)
EXTENDS Integers, Sequences, FiniteSets, TLC

VARIABLES model, TWILIO_ACCOUNT_SID, TWILIO_AUTH_TOKEN, TWILIO_PHONE_NUMBER,
          twilio_client, SMS_TRANSLATIONS, req, resp, sent, decoded, inferred

globals == <<model, TWILIO_ACCOUNT_SID, TWILIO_AUTH_TOKEN, TWILIO_PHONE_NUMBER,
             twilio_client, SMS_TRANSLATIONS>>

vars == <<model, TWILIO_ACCOUNT_SID, TWILIO_AUTH_TOKEN, TWILIO_PHONE_NUMBER,
          twilio_client, SMS_TRANSLATIONS, req, resp, sent, decoded, inferred>>

(***************************************************************************)
(* Bounds of the model.                                                    *)
(***************************************************************************)
\* longest weather text enumerated character by character
MaxWeatherLen == 2
\* most result sets one detector call returns
MaxResultSets == 2
\* most boxes in one result set
MaxBoxes == 2

(***************************************************************************)
(* JSON values as request.get_json() hands them to the handlers.  A value  *)
(* is [kind, v]: kind is its Python type, v its content as tokens (for a   *)
(* str the characters or chunks, for a list its elements, for a number or  *)
(* bool its JSON literal).  "absent" marks a key that is not in its dict.  *)
(***************************************************************************)
Absent == [kind |-> "absent", v |-> <<>>]
PyNone == [kind |-> "null", v |-> <<"null">>]
JStr(t) == [kind |-> "str", v |-> t]
JNum(lit) == [kind |-> "num", v |-> <<lit>>]
JBool(lit) == [kind |-> "bool", v |-> <<lit>>]
JList(elems) == [kind |-> "list", v |-> elems]
JObj == [kind |-> "obj", v |-> <<>>]

Range(s) == {s[i] : i \in 1..Len(s)}

\* keys a request body / a bus_details object can carry in this model
BodyKeys == <<"image", "phone_number", "bus_details", "language">>
BusKeys == <<"busNumber", "route", "availableSeats", "weather", "lat", "lon">>

\* The keys present in the dict d whose members are the fields of record r.
keys(r, names) == SelectSeq(names, LAMBDA k : r[k].kind # "absent")

\* The Python value of the request body: a dict carries its key list in v.
data_of(r) ==
    IF r.body.kind = "obj" THEN [kind |-> "obj", v |-> keys(r, BodyKeys)] ELSE r.body

\* The Python value of data['bus_details'] / data.get('bus_details').
bus_details_of(r) ==
    IF r.bus_details.kind = "obj"
    THEN [kind |-> "obj", v |-> keys(r, BusKeys)]
    ELSE r.bus_details

\* dict.get(key, default): the member, or default when the key is absent.
dict_get(member, default) == IF member.kind = "absent" THEN default ELSE member

\* bool(x): None, False, 0, 0.0, '', [] and {} are false.
truthy(x) ==
    CASE x.kind \in {"absent", "null"} -> FALSE
      [] x.kind = "bool" -> x.v = <<"true">>
      [] x.kind = "num" -> x.v \notin {<<"0">>, <<"0.0">>, <<"-0.0">>}
      [] OTHER -> x.v # <<>>

\* str(x), as str.format and an f-string render a value.
py_str(x) ==
    CASE x.kind \in {"absent", "null"} -> <<"None">>
      [] x.kind = "bool" -> IF x.v = <<"true">> THEN <<"True">> ELSE <<"False">>
      [] x.kind = "list" -> <<"[">> \o x.v \o <<"]">>
      [] x.kind = "obj" -> <<"{">> \o x.v \o <<"}">>
      [] OTHER -> x.v

\* hash(x) succeeds: list and dict are unhashable.
hashable(x) == x.kind \notin {"list", "obj"}

(***************************************************************************)
(* Responses.  ctype "json" is a jsonify() payload whose keys are `keys`;  *)
(* ctype "html" is an error page Flask itself produced because an          *)
(* exception left the view function (escaped = TRUE).                      *)
(***************************************************************************)
NoResponse ==
    [status |-> 0, ctype |-> "none", escaped |-> FALSE, keys |-> {},
     success |-> FALSE, message |-> <<>>, error |-> <<>>, crowd_count |-> 0]

\* jsonify({'error': text}), status
json_error(status, text) ==
    [NoResponse EXCEPT !.status = status, !.ctype = "json",
                       !.keys = {"error"}, !.error = text]

\* jsonify({'success': False, 'error': text}), status
json_failure(status, text) ==
    [NoResponse EXCEPT !.status = status, !.ctype = "json",
                       !.keys = {"success", "error"}, !.error = text]

\* jsonify({'success': True, 'message': text}) with Flask's default status
json_success(text) ==
    [NoResponse EXCEPT !.status = 200, !.ctype = "json", !.success = TRUE,
                       !.keys = {"success", "message"}, !.message = text]

\* jsonify({'crowd_count': n}) with Flask's default status
json_count(n) ==
    [NoResponse EXCEPT !.status = 200, !.ctype = "json",
                       !.keys = {"crowd_count"}, !.crowd_count = n]

\* An exception raised outside every try block: Flask answers with its own
\* 500 page (the debugger page under app.run(debug=True)).
unhandled(exc) ==
    [NoResponse EXCEPT !.status = 500, !.ctype = "html", !.escaped = TRUE,
                       !.error = exc]

\* An HTTPException raised by request.get_json(): Flask answers with the
\* exception's own status and error page.
http_abort(status) ==
    [NoResponse EXCEPT !.status = status, !.ctype = "html", !.escaped = TRUE]

\* render_template(name): the page, or TemplateNotFound leaving the view.
render_template(found) ==
    IF found
    THEN [NoResponse EXCEPT !.status = 200, !.ctype = "html"]
    ELSE unhandled(<<"TemplateNotFound">>)

(***************************************************************************)
(* request.get_json().  A body that parsed is returned as it is (JSON null *)
(* as None).  For a request without a JSON body the outcome depends on the *)
(* Flask release and the Content-Type header: None is returned, or 415 or  *)
(* 400 is raised.                                                          *)
(***************************************************************************)
GetJsonOutcomes == {"None", "415", "400"}

get_json(r, outcome) ==
    IF r.body.kind # "absent"
    THEN [raised |-> FALSE, status |-> 0, value |-> data_of(r)]
    ELSE CASE outcome = "415" -> [raised |-> TRUE, status |-> 415, value |-> PyNone]
           [] outcome = "400" -> [raised |-> TRUE, status |-> 400, value |-> PyNone]
           [] OTHER -> [raised |-> FALSE, status |-> 0, value |-> PyNone]

(***************************************************************************)
(* Start-up: lines 27-49.                                                  *)
(***************************************************************************)
\* The handles are opaque; "None" is Python's None.
NoHandle == "None"

\* try: model = YOLO('yolov8n.pt')  except: model = None
load_model(loads) == IF loads THEN "YOLO" ELSE NoHandle

\* os.getenv(name, ""): the value, or "" when the variable is not set.
EnvValues(name) == {"", name}

\* init_twilio_client with the sender number left out of the test of line 40
init_twilio_client_without_number(sid, token, number, constructs) ==
    IF sid # "" /\ token # ""
    THEN IF constructs THEN "Client" ELSE NoHandle
    ELSE NoHandle

\* twilio_client stays None unless all three settings are non-empty and
\* Client(sid, token) returns.
init_twilio_client(sid, token, number, constructs) ==
    IF sid # "" /\ token # "" /\ number # ""
    THEN IF constructs THEN "Client" ELSE NoHandle
    ELSE NoHandle

(***************************************************************************)
(* SMS_TRANSLATIONS, lines 18-23.  A template is a sequence of chunks, the *)
(* placeholders among them.  The literals of hi-IN, te-IN and ta-IN are    *)
(* transliterated: the module is ASCII.                                    *)
(***************************************************************************)
Translations ==
    [l \in {"en-IN", "hi-IN", "te-IN", "ta-IN"} |->
       CASE l = "en-IN" ->
              <<"Bus ", "{bus_number}", " | Route: ", "{route}", " | Seats: ",
                "{seats}", " | Wx: ", "{weather}", " | ", "{link}">>
         [] l = "hi-IN" ->
              <<"bas ", "{bus_number}", " | maarg: ", "{route}", " | seeten: ",
                "{seats}", " | mausam: ", "{weather}", " | ", "{link}">>
         [] l = "te-IN" ->
              <<"bassu ", "{bus_number}", " | maargam: ", "{route}", " | seetlu: ",
                "{seats}", " | vaataa: ", "{weather}", " | ", "{link}">>
         [] OTHER ->
              <<"pas ", "{bus_number}", " | vazhi: ", "{route}", " | idangal: ",
                "{seats}", " | vaanilai: ", "{weather}", " | ", "{link}">>]

RECURSIVE Concat(_)
Concat(ss) == IF ss = <<>> THEN <<>> ELSE Head(ss) \o Concat(Tail(ss))

\* template.format(**args): every placeholder chunk is replaced by its
\* argument, every other chunk is copied.
format(template, args) ==
    Concat([i \in 1..Len(template) |->
              IF template[i] \in DOMAIN args
              THEN args[template[i]]
              ELSE <<template[i]>>])

\* SMS_TRANSLATIONS.get(language, SMS_TRANSLATIONS['en-IN']).  The caller
\* has established hashable(language).
select_template(table, language) ==
    IF language.kind = "str" /\ Len(language.v) = 1 /\ language.v[1] \in DOMAIN table
    THEN table[language.v[1]]
    ELSE table["en-IN"]

(***************************************************************************)
(* Weather: re.search(r'[\d.]+', weather_str), lines 95-96.                *)
(***************************************************************************)
Digits == {"0", "1", "2", "3", "4", "5", "6", "7", "8", "9"}

\* the character class [\d.]
in_class(c) == c \in Digits \/ c = "."

\* The leftmost, longest run of class characters: [found, group].
re_search(chars) ==
    LET starts == {i \in 1..Len(chars) : in_class(chars[i])}
    IN  IF starts = {}
        THEN [found |-> FALSE, group |-> <<>>]
        ELSE LET b == CHOOSE i \in starts : \A j \in starts : i <= j
                 e == CHOOSE i \in b..Len(chars) :
                        /\ \A j \in b..i : in_class(chars[j])
                        /\ i = Len(chars) \/ ~in_class(chars[i + 1])
             IN  [found |-> TRUE, group |-> SubSeq(chars, b, e)]

NA == <<"N", "/", "A">>

\* match.group(0) + 'c' if match else 'N/A'
sanitize_weather(weather_str) ==
    LET match == re_search(weather_str)
    IN  IF match.found THEN match.group \o <<"c">> ELSE NA

(***************************************************************************)
(* Location link, lines 99-101.                                            *)
(***************************************************************************)
NotAvailable == <<"Not available">>

\* maps_link with `or` for the `and` of line 101
maps_link_either(lat, lon) ==
    IF truthy(lat) \/ truthy(lon)
    THEN <<"https://maps.google.com/?q=">> \o py_str(lat) \o <<",">> \o py_str(lon)
    ELSE NotAvailable

maps_link(lat, lon) ==
    IF truthy(lat) /\ truthy(lon)
    THEN <<"https://maps.google.com/?q=">> \o py_str(lat) \o <<",">> \o py_str(lon)
    ELSE NotAvailable

(***************************************************************************)
(* send_sms, lines 79-126.                                                 *)
(***************************************************************************)
Raise(exc, calls) == [raised |-> TRUE, exc |-> exc, sent |-> calls]
Return(calls) == [raised |-> FALSE, exc |-> <<>>, sent |-> calls]

\* The try block, lines 93-122: the exception it raises, if any, and the
\* calls of twilio_client.messages.create it made.
sms_try(from_, table, phone_number, bus_details, language, r, send_outcome) ==
    IF bus_details.kind # "obj"
    THEN Raise(<<"AttributeError: object has no attribute 'get'">>, <<>>)
    ELSE
    LET weather_str == dict_get(r.weather, JStr(NA))
    IN  IF weather_str.kind # "str"
        THEN Raise(<<"TypeError: expected string or bytes-like object">>, <<>>)
        ELSE
        LET sanitized_weather == sanitize_weather(weather_str.v)
            lat == dict_get(r.lat, PyNone)
            lon == dict_get(r.lon, PyNone)
            link == maps_link(lat, lon)
        IN  IF ~hashable(language)
            THEN Raise(<<"TypeError: unhashable type">>, <<>>)
            ELSE
            LET message_template == select_template(table, language)
                message_body ==
                    format(message_template,
                           [p \in {"{bus_number}", "{route}", "{seats}",
                                   "{weather}", "{link}"} |->
                              CASE p = "{bus_number}" ->
                                     py_str(dict_get(r.busNumber, JStr(NA)))
                                [] p = "{route}" ->
                                     py_str(dict_get(r.route, JStr(NA)))
                                [] p = "{seats}" ->
                                     py_str(dict_get(r.availableSeats, JStr(NA)))
                                [] p = "{weather}" -> sanitized_weather
                                [] OTHER -> link])
                call == [body |-> message_body, from_ |-> from_,
                         to |-> phone_number, outcome |-> send_outcome]
            IN  IF send_outcome = "throws"
                THEN Raise(<<"TwilioRestException">>, <<call>>)
                ELSE Return(<<call>>)

\* an except block that reports success
sms_except_swallowing(exc) == json_success(<<"SMS sent successfully!">>)

\* The except block, lines 124-126.
sms_except(exc) == json_failure(500, exc)

TwilioNotConfigured == <<"Twilio service is not configured on the server.">>
MissingFields == <<"Missing phone number or bus details.">>
SmsSent == <<"SMS sent successfully!">>

\* The view: the response and the send calls made.  o.get_json and o.send
\* are the outcomes of request.get_json() and of messages.create().
send_sms(client, from_, table, r, o) ==
    IF client = NoHandle
    THEN [resp |-> json_failure(500, TwilioNotConfigured), sent |-> <<>>]
    ELSE
    LET got == get_json(r, o.get_json)
    IN  IF got.raised
        THEN [resp |-> http_abort(got.status), sent |-> <<>>]
        ELSE IF got.value.kind # "obj"
        THEN [resp |-> unhandled(<<"AttributeError: object has no attribute 'get'">>),
              sent |-> <<>>]
        ELSE
        LET phone_number == dict_get(r.phone_number, PyNone)
            bus_details == dict_get(bus_details_of(r), PyNone)
            language == dict_get(r.language, JStr(<<"en-IN">>))
        IN  IF ~truthy(phone_number) \/ ~truthy(bus_details)
            THEN [resp |-> json_failure(400, MissingFields), sent |-> <<>>]
            ELSE
            LET t == sms_try(from_, table, phone_number, bus_details, language,
                             r, o.send)
            IN  IF t.raised
                THEN [resp |-> sms_except(t.exc), sent |-> t.sent]
                ELSE [resp |-> json_success(SmsSent), sent |-> t.sent]

(***************************************************************************)
(* detect_crowd, lines 65-77.                                              *)
(***************************************************************************)
\* model.names restricted to the classes the model's detector reports
ClassIds == {0, 2}
names == [c \in ClassIds |-> IF c = 0 THEN "person" ELSE "car"]

RECURSIVE SumSeq(_)
SumSeq(ns) == IF ns = <<>> THEN 0 ELSE Head(ns) + SumSeq(Tail(ns))

\* crowd_count without the test of the class label
crowd_count_all_boxes(results) ==
    SumSeq([i \in 1..Len(results) |-> Len(results[i])])

\* sum(1 for r in results for box in r.boxes
\*       if model.names[int(box.cls)] == 'person')
\* results is a sequence of result sets, a result set the sequence of the
\* class ids of its boxes.
crowd_count(results) ==
    SumSeq([i \in 1..Len(results) |->
              Len(SelectSeq(results[i], LAMBDA cls : names[cls] = "person"))])

ModelUnavailable == <<"AI Model is not available on the server">>
NoImage == <<"No image data provided">>
BadImage == <<"Failed to process image">>

\* 'image' in data, for a str (substring), a list (element) or a dict (key).
contains_image(data) == "image" \in Range(data.v)

\* data['image'].split(',', 1) gives the two parts line 71 unpacks: data is
\* a dict, the member a str with a comma in it.  Anything else raises.
splits(data, r) ==
    /\ data.kind = "obj"
    /\ r.image.kind = "str"
    /\ "," \in Range(r.image.v)

Quiet(response) == [resp |-> response, decoded |-> <<>>, inferred |-> <<>>]

\* Lines 68-77, reached when the detector is loaded.  o.decode is what
\* b64decode, Image.open and cvtColor do (return or raise), o.infer what
\* model(frame) does, o.results the result sets it returns.
detect_body(r, o) ==
    LET got == get_json(r, o.get_json)
        data == got.value
    IN  IF got.raised
        THEN Quiet(http_abort(got.status))
        ELSE IF ~truthy(data)
        THEN Quiet(json_error(400, NoImage))
        ELSE IF data.kind \in {"num", "bool"}
        THEN Quiet(unhandled(<<"TypeError: argument is not iterable">>))
        ELSE IF ~contains_image(data)
        THEN Quiet(json_error(400, NoImage))
        ELSE IF ~splits(data, r)
        THEN Quiet(json_error(400, BadImage))
        ELSE IF o.decode = "throws"
        THEN [resp |-> json_error(400, BadImage),
              decoded |-> <<[outcome |-> "throws"]>>, inferred |-> <<>>]
        ELSE IF o.infer = "throws"
        THEN [resp |-> unhandled(<<"detector raised">>),
              decoded |-> <<[outcome |-> "ok"]>>,
              inferred |-> <<[outcome |-> "throws", results |-> <<>>]>>]
        ELSE [resp |-> json_count(crowd_count(o.results)),
              decoded |-> <<[outcome |-> "ok"]>>,
              inferred |-> <<[outcome |-> "ok", results |-> o.results]>>]

\* detect_crowd with the body validated before the detector is looked at
detect_crowd_validating_first(m, r, o) ==
    LET e == detect_body(r, o)
    IN  IF e.resp.status = 400 \/ m # NoHandle
        THEN e
        ELSE Quiet(json_error(500, ModelUnavailable))

\* The view: the response, the decodings and the detector calls made.
detect_crowd(m, r, o) ==
    IF m = NoHandle
    THEN Quiet(json_error(500, ModelUnavailable))
    ELSE detect_body(r, o)

(***************************************************************************)
(* Requests.  A request is its path and its JSON body; the members of the  *)
(* body and of bus_details are fields of the record (Absent when the key   *)
(* is missing or the parent is no dict).                                   *)
(***************************************************************************)
BlankRequest(path) ==
    [path |-> path, body |-> Absent,
     image |-> Absent, phone_number |-> Absent, bus_details |-> Absent,
     language |-> Absent,
     busNumber |-> Absent, route |-> Absent, availableSeats |-> Absent,
     weather |-> Absent, lat |-> Absent, lon |-> Absent]

NoRequest == BlankRequest("")

\* all sequences over S of length at most n
RECURSIVE SeqsUpTo(_, _)
SeqsUpTo(S, n) ==
    IF n = 0 THEN {<<>>}
    ELSE LET shorter == SeqsUpTo(S, n - 1)
         IN  shorter \cup {Append(q, x) : q \in shorter, x \in S}

\* Bodies that are no dict, for either endpoint.
NonDictBodies ==
    {Absent, PyNone, JNum("0"), JNum("5"), JBool("true"), JStr(<<>>),
     JStr(<<"image">>), JStr(<<"x">>), JList(<<>>), JList(<<"image">>),
     JList(<<"x">>)}

DataUrl == <<"data:image/jpeg;base64", ",", "payload">>

ImageValues == {Absent, PyNone, JNum("5"), JStr(<<"payload">>), JStr(DataUrl)}

DetectRequests ==
    {[BlankRequest("/detect_crowd") EXCEPT !.body = b] : b \in NonDictBodies}
    \cup {[BlankRequest("/detect_crowd") EXCEPT
             !.body = JObj, !.image = i, !.language = l] :
            i \in ImageValues, l \in {Absent, JStr(<<"en-IN">>)}}

ResultSets == SeqsUpTo(SeqsUpTo(ClassIds, MaxBoxes), MaxResultSets)

\* What the image decoding and the detector do for one request.
DetectOutcomes ==
    {[decode |-> "throws", infer |-> "ok", results |-> <<>>],
     [decode |-> "ok", infer |-> "throws", results |-> <<>>]}
    \cup {[decode |-> "ok", infer |-> "ok", results |-> res] : res \in ResultSets}

WeatherChars == {"2", "8", ".", "S"}
WeatherSamples ==
    {<<"2", "8", ".", "5", " ", "C">>, <<"S", "u", "n", "n", "y", ".">>,
     <<"S", "u", "n", "n", "y">>, <<"1", "2", " ", "t", "o", " ", "1", "5">>}
WeatherTexts == SeqsUpTo(WeatherChars, MaxWeatherLen) \cup WeatherSamples
WeatherValues == {JStr(w) : w \in WeatherTexts} \cup {Absent, PyNone, JNum("28")}

LatValues == {Absent, PyNone, JStr(<<>>), JNum("0"), JNum("12.9")}
LonValues == {Absent, PyNone, JStr(<<>>), JNum("0"), JNum("77.6")}

LanguageValues ==
    {Absent, PyNone, JStr(<<"en-IN">>), JStr(<<"hi-IN">>), JStr(<<"te-IN">>),
     JStr(<<"ta-IN">>), JStr(<<"fr-FR">>), JList(<<"hi-IN">>)}

PhoneValues == {Absent, PyNone, JStr(<<>>), JNum("0"), JStr(<<"+911234567890">>)}

\* A complete request to /send_sms.
FullSms ==
    [BlankRequest("/send_sms") EXCEPT
       !.body = JObj,
       !.phone_number = JStr(<<"+911234567890">>),
       !.bus_details = JObj,
       !.busNumber = JStr(<<"42A">>),
       !.route = JStr(<<"Majestic - Airport">>),
       !.availableSeats = JNum("12"),
       !.weather = JStr(<<"2", "8", ".", "5", " ", "C">>),
       !.lat = JNum("12.9"),
       !.lon = JNum("77.6")]

\* bus_details that is no dict, or a dict without members
OddBusDetails == {Absent, PyNone, JStr(<<"bus">>), JList(<<>>), JList(<<"x">>), JObj}

SmsRequests ==
    \* language, coordinates and the three optional texts, in every combination
    {[FullSms EXCEPT !.language = l, !.lat = la, !.lon = lo,
                     !.busNumber = IF "busNumber" \in ks THEN @ ELSE Absent,
                     !.route = IF "route" \in ks THEN @ ELSE Absent,
                     !.availableSeats = IF "availableSeats" \in ks THEN @ ELSE Absent] :
        l \in LanguageValues, la \in LatValues, lo \in LonValues,
        ks \in SUBSET {"busNumber", "route", "availableSeats"}}
    \* the weather texts
    \cup {[FullSms EXCEPT !.weather = w, !.language = l] :
            w \in WeatherValues, l \in {Absent, JStr(<<"ta-IN">>)}}
    \* phone_number and bus_details missing or of another shape
    \cup {[FullSms EXCEPT !.phone_number = ph] : ph \in PhoneValues}
    \cup {[BlankRequest("/send_sms") EXCEPT
             !.body = JObj, !.phone_number = ph, !.bus_details = bd] :
            ph \in PhoneValues, bd \in OddBusDetails}
    \* bodies that are no dict
    \cup {[BlankRequest("/send_sms") EXCEPT !.body = b] : b \in NonDictBodies}

SendOutcomes == {"ok", "throws"}

\* The outcomes request.get_json() can have for r.
JsonOutcomes(r) == IF r.body.kind = "absent" THEN GetJsonOutcomes ELSE {"value"}

(***************************************************************************)
(* The state machine.                                                      *)
(***************************************************************************)
\* The state when app.py has been imported: lines 18-49.
Init ==
    /\ \E loads \in BOOLEAN : model = load_model(loads)
    /\ TWILIO_ACCOUNT_SID \in EnvValues("ACxxxx")
    /\ TWILIO_AUTH_TOKEN \in EnvValues("token")
    /\ TWILIO_PHONE_NUMBER \in EnvValues("+15005550006")
    /\ \E constructs \in BOOLEAN :
         twilio_client = init_twilio_client(TWILIO_ACCOUNT_SID, TWILIO_AUTH_TOKEN,
                                            TWILIO_PHONE_NUMBER, constructs)
    /\ SMS_TRANSLATIONS = Translations
    /\ req = NoRequest
    /\ resp = NoResponse
    /\ sent = <<>>
    /\ decoded = <<>>
    /\ inferred = <<>>

\* A page route, lines 52-61: render_template and nothing else.
page(path) ==
    /\ req = NoRequest
    /\ req' = BlankRequest(path)
    /\ \E found \in BOOLEAN : resp' = render_template(found)
    /\ UNCHANGED <<globals, sent, decoded, inferred>>

index == page("/")
user == page("/user")
bus == page("/bus")
add_bus == page("/add_bus")
driver_dashboard == page("/driver_dashboard")

\* POST /detect_crowd
PostDetectCrowd ==
    /\ req = NoRequest
    /\ \E r \in DetectRequests, o \in DetectOutcomes :
         \E gj \in JsonOutcomes(r) :
           LET e == detect_crowd(model, r,
                                 [get_json |-> gj, decode |-> o.decode,
                                  infer |-> o.infer, results |-> o.results])
           IN  /\ req' = r
               /\ resp' = e.resp
               /\ decoded' = e.decoded
               /\ inferred' = e.inferred
    /\ UNCHANGED <<globals, sent>>

\* POST /send_sms with a handler that drops the client when a send failed
PostSendSmsDroppingClient ==
    /\ req = NoRequest
    /\ \E r \in SmsRequests, so \in SendOutcomes :
         \E gj \in JsonOutcomes(r) :
           LET e == send_sms(twilio_client, TWILIO_PHONE_NUMBER, SMS_TRANSLATIONS,
                             r, [get_json |-> gj, send |-> so])
           IN  /\ req' = r
               /\ resp' = e.resp
               /\ sent' = e.sent
               /\ twilio_client' =
                    IF e.sent # <<>> /\ e.resp.status = 500
                    THEN NoHandle
                    ELSE twilio_client
    /\ UNCHANGED <<model, TWILIO_ACCOUNT_SID, TWILIO_AUTH_TOKEN, TWILIO_PHONE_NUMBER,
                   SMS_TRANSLATIONS, decoded, inferred>>

\* POST /send_sms
PostSendSms ==
    /\ req = NoRequest
    /\ \E r \in SmsRequests, so \in SendOutcomes :
         \E gj \in JsonOutcomes(r) :
           LET e == send_sms(twilio_client, TWILIO_PHONE_NUMBER, SMS_TRANSLATIONS,
                             r, [get_json |-> gj, send |-> so])
           IN  /\ req' = r
               /\ resp' = e.resp
               /\ sent' = e.sent
    /\ UNCHANGED <<globals, decoded, inferred>>

\* Flask pops the request context when the response has been returned:
\* nothing of the request is kept.
teardown ==
    /\ req # NoRequest
    /\ req' = NoRequest
    /\ resp' = NoResponse
    /\ sent' = <<>>
    /\ decoded' = <<>>
    /\ inferred' = <<>>
    /\ UNCHANGED globals

Next ==
    \/ index
    \/ user
    \/ bus
    \/ add_bus
    \/ driver_dashboard
    \/ PostDetectCrowd
    \/ PostSendSms
    \/ teardown

Spec == Init /\ [][Next]_vars

(***************************************************************************)
(* Reading a sent message back.  No value of the requests holds the chunk  *)
(* " | " or a label of a template, so the chunks of a message body between *)
(* the labels are the texts that were filled in.                           *)
(***************************************************************************)
Languages == {"en-IN", "hi-IN", "te-IN", "ta-IN"}

\* index of the weather label and of the separator before the link
WeatherLabelAt(body) ==
    CHOOSE i \in 1..Len(body) : \E l \in Languages : body[i] = SMS_TRANSLATIONS[l][7]
LinkSeparatorAt(body) ==
    CHOOSE i \in 1..Len(body) :
      /\ body[i] = " | "
      /\ \A j \in (i + 1)..Len(body) : body[j] # " | "

WeatherIn(body) == SubSeq(body, WeatherLabelAt(body) + 1, LinkSeparatorAt(body) - 1)
LinkIn(body) == SubSeq(body, LinkSeparatorAt(body) + 1, Len(body))

\* The message a template of SMS_TRANSLATIONS gives for five texts.
Filled(lang, bus_number, route_, seats, weather, link) ==
    LET t == SMS_TRANSLATIONS[lang]
    IN  <<t[1]>> \o bus_number \o <<t[3]>> \o route_ \o <<t[5]>> \o seats
        \o <<t[7]>> \o weather \o <<t[9]>> \o link

\* a member's text, "N/A" when the key is absent
OrNA(member) == IF member.kind = "absent" THEN NA ELSE py_str(member)

\* The request has been answered by the endpoint.
Answered(path) == req.path = path /\ resp # NoResponse

IsJson(status) == resp.ctype = "json" /\ resp.status = status /\ ~resp.escaped

\* {success: false, error: ...}
IsFailure(status) ==
    IsJson(status) /\ resp.keys = {"success", "error"} /\ ~resp.success

\* The weather text the request carries (the default of dict.get when the
\* key is absent).
WeatherOf(r) == IF r.weather.kind = "absent" THEN NA ELSE r.weather.v

HasDigit(text) == \E i \in 1..Len(text) : text[i] \in Digits

(***************************************************************************)
(* C1: every request to /detect_crowd and /send_sms ends in a JSON         *)
(* response with status 200, 400 or 500, and no exception leaves the       *)
(* handler.                                                                *)
(***************************************************************************)
C1_AlwaysJson ==
    (Answered("/detect_crowd") \/ Answered("/send_sms"))
    => /\ resp.ctype = "json"
       /\ resp.status \in {200, 400, 500}
       /\ ~resp.escaped

(***************************************************************************)
(* C2: with the messaging client configured, a /send_sms request whose     *)
(* phone_number or bus_details is missing or empty, or that has no JSON    *)
(* body at all, is answered 400 {success: false} and nothing is sent.      *)
(***************************************************************************)
Missing(x) == x.kind \in {"absent", "null"} \/ (x.kind \in {"str", "obj"} /\ x.v = <<>>)

C2_MissingFields400 ==
    ( /\ Answered("/send_sms")
      /\ twilio_client # NoHandle
      /\ \/ req.body.kind = "absent"
         \/ /\ req.body.kind = "obj"
            /\ Missing(req.phone_number) \/ Missing(bus_details_of(req)) )
    => IsFailure(400) /\ sent = <<>>

(***************************************************************************)
(* C3: with the detector not loaded, every /detect_crowd request is        *)
(* answered 500, whatever its body, and the detector is not invoked.       *)
(***************************************************************************)
C3_NoDetector500 ==
    (Answered("/detect_crowd") /\ model = NoHandle)
    => /\ IsJson(500)
       /\ resp.keys = {"error"}
       /\ decoded = <<>>
       /\ inferred = <<>>

\* a body without image is answered 500, not 400, when no detector is loaded
C3_Witness ==
    /\ Answered("/detect_crowd")
    /\ model = NoHandle
    /\ req.body.kind = "obj"
    /\ req.image.kind = "absent"
    /\ resp.status = 500

(***************************************************************************)
(* C4: if one of the three TWILIO_* settings is empty (or the client's     *)
(* construction throws) the messaging client is unset after start-up, and  *)
(* then every /send_sms request is answered 500 {success: false} with the  *)
(* fixed text and nothing is sent.                                         *)
(***************************************************************************)
C4_Unconfigured500 ==
    /\ "" \in {TWILIO_ACCOUNT_SID, TWILIO_AUTH_TOKEN, TWILIO_PHONE_NUMBER}
         => twilio_client = NoHandle
    /\ (Answered("/send_sms") /\ twilio_client = NoHandle)
         => /\ IsFailure(500)
            /\ resp.error = <<"Twilio service is not configured on the server.">>
            /\ sent = <<>>

\* only the sender number is missing and a complete request is refused
C4_Witness ==
    /\ TWILIO_ACCOUNT_SID # ""
    /\ TWILIO_AUTH_TOKEN # ""
    /\ TWILIO_PHONE_NUMBER = ""
    /\ Answered("/send_sms")
    /\ req = FullSms
    /\ resp.status = 500

(***************************************************************************)
(* C5: a weather text without a digit gives exactly "N/A" in the message;  *)
(* one with a digit gives its first run of digits and decimal points       *)
(* followed by "c".                                                        *)
(***************************************************************************)
C5_NoDigitIsNA ==
    \A i \in 1..Len(sent) :
      LET w == WeatherOf(req)
      IN  IF HasDigit(w)
          THEN WeatherIn(sent[i].body) = re_search(w).group \o <<"c">>
          ELSE WeatherIn(sent[i].body) = NA

(***************************************************************************)
(* C6: the message is built from the template of the requested language    *)
(* when that is one of the four, from the en-IN template for every other   *)
(* language value and when language is absent; bus number, route and seat  *)
(* count are "N/A" when their key is absent.                               *)
(***************************************************************************)
\* The request passes the checks of lines 81-90 and its weather is a text.
ReachesTemplate(r) ==
    /\ twilio_client # NoHandle
    /\ r.body.kind = "obj"
    /\ truthy(r.phone_number)
    /\ r.bus_details.kind = "obj"
    /\ truthy(bus_details_of(r))
    /\ r.weather.kind \in {"absent", "str"}

TemplateFor(language) ==
    IF \E l \in Languages : language = JStr(<<l>>) THEN language.v[1] ELSE "en-IN"

C6_TemplateByLanguage ==
    (Answered("/send_sms") /\ ReachesTemplate(req))
    => /\ Len(sent) = 1
       /\ sent[1].body =
            Filled(TemplateFor(req.language), OrNA(req.busNumber), OrNA(req.route),
                   OrNA(req.availableSeats), WeatherIn(sent[1].body),
                   LinkIn(sent[1].body))

(***************************************************************************)
(* C7: the link in the message is the maps URL of lat and lon exactly when *)
(* both are present and truthy, and "Not available" in every other case.   *)
(***************************************************************************)
\* missing, null, empty or zero
Falsy(x) == x.kind \in {"absent", "null"} \/ x.v = <<>> \/ x.v = <<"0">>

C7_MapsLink ==
    \A i \in 1..Len(sent) :
      LinkIn(sent[i].body) =
        IF ~Falsy(req.lat) /\ ~Falsy(req.lon)
        THEN <<"https://maps.google.com/?q=">> \o req.lat.v \o <<",">> \o req.lon.v
        ELSE <<"Not available">>

C7_Witness ==
    /\ Answered("/send_sms")
    /\ Len(sent) = 1
    /\ req.lat = JNum("12.9")
    /\ req.lon = JNum("77.6")
    /\ LinkIn(sent[1].body) = <<"https://maps.google.com/?q=", "12.9", ",", "77.6">>

(***************************************************************************)
(* C8 as it is written: with the detector loaded and the image decoded,    *)
(* the detector is invoked exactly once and the response is 200 with       *)
(* crowd_count the number of boxes labelled "person" over all result sets. *)
(***************************************************************************)
PersonBoxes(results) ==
    Cardinality({ij \in UNION {{<<i, j>> : j \in 1..Len(results[i])} :
                                 i \in 1..Len(results)} :
                   names[results[ij[1]][ij[2]]] = "person"})

Decoded == Answered("/detect_crowd") /\ model # NoHandle /\ decoded = <<[outcome |-> "ok"]>>

PassesChecks(r) ==
    /\ twilio_client # NoHandle
    /\ r.body.kind = "obj"
    /\ truthy(r.phone_number)
    /\ truthy(bus_details_of(r))

C9_OneSendNoRetry ==
    (Answered("/send_sms") /\ PassesChecks(req))
    => /\ Len(sent) <= 1
       /\ \A i \in 1..Len(sent) :
            sent[i].from_ = TWILIO_PHONE_NUMBER /\ sent[i].to = req.phone_number
       /\ (Len(sent) = 1 /\ sent[1].outcome = "ok")
            <=> /\ IsJson(200)
                /\ resp.keys = {"success", "message"}
                /\ resp.success
                /\ resp.message = <<"SMS sent successfully!">>
       /\ ~(Len(sent) = 1 /\ sent[1].outcome = "ok")
            => IsFailure(500) /\ resp.error # <<>>

\* the one send call threw and the answer is 500
C9_Witness ==
    /\ Answered("/send_sms")
    /\ PassesChecks(req)
    /\ Len(sent) = 1
    /\ sent[1].outcome = "throws"
    /\ resp.status = 500

====
